---- MODULE Spec2Model ----
(***************************************************************************)
(* Model of the Spectra chat page (client/src/pages/index.tsx, kept as     *)
(* src/unnamed/part_002) and of the API helpers it calls (lib/api.ts, kept *)
(* as src/unnamed/part_000).                                               *)
(*                                                                         *)
(* The page is a single React component.  Its state is the set of useState *)
(* cells, the browser's localStorage key "current_session_id" and the      *)
(* position of every async function that is suspended at an await.  Each   *)
(* action below is one event-loop turn: an auth callback, a user event, or *)
(* the continuation of an async function after one awaited call settled.   *)
(* An HTTP call takes effect on the backend at the moment its response is  *)
(* delivered to the continuation.                                          *)
(***************************************************************************)
EXTENDS Integers, Sequences, FiniteSets, TLC

\* ------------------------------------------------------------------ bounds
MaxRuns == 2        \* reconciliation runs started (effect invocations with a principal)
MaxSubmits == 2     \* accepted submits

\* ------------------------------------------------------------- value space
Users == {"u1", "u2"}
NoUser == "none"                 \* session === null
NoEmail == "anon"                \* a principal whose session.user has no email
NoSession == 0                   \* chatSession === null
NoPtr == 0                       \* localStorage.getItem(SESSION_KEY) === null

\* Sessions that exist in the backend before the page is opened: the owner of
\* session id i is PreOwner[i].
PreOwner == <<"u1", "u1", "u2">>
PreIds == 1..Len(PreOwner)
FirstNewSid == Len(PreOwner) + 1
\* Every id the backend can hand out within the bounds.
AllSids == 1..(FirstNewSid + MaxRuns - 1)
\* A pointer value that names no session of the backend.
StaleSid == FirstNewSid + MaxRuns

\* The session lists a user can start with (most recent first).
InitLists(u) ==
    IF u = "u1" THEN {<<>>, <<1>>, <<2, 1>>} ELSE {<<3>>}

\* The message history sessions start with.
InitHistory(sid) ==
    IF sid = 1 THEN << [role |-> "user", content |-> "q"],
                       [role |-> "assistant", content |-> "a"] >>
    ELSE IF sid = 3 THEN << [role |-> "user", content |-> "q"] >>
    ELSE << >>

InputTexts == {"q"}              \* what the user can type
Answers == {"a", ""}             \* final_answer values the synthesis returns

\* -------------------------------------------------------------------- state
VARIABLES
    authUser,      \* identity provider: the principal signed in, or NoUser
    loadPc,        \* loadSession(): "pending" at supabase.auth.getSession(), "done"
    session,       \* useState session: the principal of the Session object, or NoUser
    signedOut,     \* the last auth state the page handled had no principal
    currentUser,   \* useState currentUser
    chatSession,   \* useState chatSession: the id of the selected session
    messages,      \* useState messages: the chat view
    input,         \* useState input
    loading,       \* useState loading (awaiting_response)
    initLoading,   \* useState initLoading (initializing)
    error,         \* useState error
    authError,     \* useState authError
    authLoading,   \* useState authLoading
    authCalls,     \* handleGoogleSignIn / handleSignOut awaiting the auth client
    localPtr,      \* localStorage["current_session_id"]
    sessions,      \* backend: user -> that user's session ids, most recent first
    titles,        \* backend: session id -> title
    store,         \* backend: session id -> messages in creation order
    runs,          \* invocations of initializeUserAndChat with a principal
    nRuns,         \* number of runs started
    subs,          \* accepted invocations of handleSubmit
    nSubs,         \* number of submits accepted
    atUnload       \* what the page showed when it was last reloaded

vars == << authUser, loadPc, session, signedOut, currentUser, chatSession, messages,
           input, loading, initLoading, error, authError, localPtr, sessions,
           titles, store, runs, nRuns, subs, nSubs, authLoading, authCalls, atUnload >>

authVars == << authUser, loadPc, session, signedOut, authError, authLoading, authCalls >>
backendVars == << sessions, titles, store >>
submitVars == << subs, nSubs, input, loading >>

\* ------------------------------------------------------------------ helpers
RunIds == 1..MaxRuns
SubIds == 1..MaxSubmits

Range(s) == { s[i] : i \in 1..Len(s) }

\* input.trim() is empty
Blank(t) == t \in {"", " "}

IdleRun == [ pc |-> "idle", user |-> NoUser, stored |-> NoPtr, seen |-> << >>,
             active |-> NoSession, nReg |-> 0, nList |-> 0, nCreate |-> 0,
             nFetch |-> 0 ]

IdleSub == [ pc |-> "idle", sid |-> NoSession, text |-> "", answer |-> "" ]

\* A submit that has returned: its locals are gone, only how it ended is kept.
EndedSub(how) == [ IdleSub EXCEPT !.pc = how ]

\* A run that has returned: its locals are gone, only how it ended is kept.
EndedRun(run, how) == [ IdleRun EXCEPT !.pc = how, !.user = run.user ]

InFlight == {"register", "list", "create", "fetch"}
Finished == {"done", "warned", "failed"}

\* The positions at which a submit awaits a call.
SubInFlight == {"storeUser", "send", "storeAi"}

\* Type and text of the entries of a chat view.
Shown(ms) == [ i \in 1..Len(ms) |-> [ type |-> ms[i].type, content |-> ms[i].content ] ]

\* Nothing recorded: the page has not been reloaded.
NoUnload == [ sid |-> NoSession, view |-> << >>, clean |-> FALSE ]

\* localStorage helpers
keepCurrentSession == localPtr
saveCurrentSession(sid) == sid
getCurrentSession == localPtr
clearCurrentSession == NoPtr

\* The title createChatSession falls back to when the caller passes none.
ApiDefaultTitle == "New Chat"

\* The title initializeUserAndChat passes to createChatSession.
NewConversationTitle == "New Conversation"

\* backendMessages.map(...) of the hydration step
ToUiMessage(m) ==
    [ type |-> IF m.role = "user" THEN "user" ELSE "ai", content |-> m.content ]

ToUiMessages(ms) == [ i \in 1..Len(ms) |-> ToUiMessage(ms[i]) ]

\* A view entry together with the session it was loaded from or submitted
\* to.  The page keeps no such field: src only records where the entry came
\* from and is read by no action.
FromSession(m, sid) == [ type |-> m.type, content |-> m.content, src |-> sid ]

AllFromSession(ms, sid) == [ i \in 1..Len(ms) |-> FromSession(ms[i], sid) ]

\* sessions.find((s) => s.id === storedSessionId) || null
FindSession(list, stored) ==
    IF \E i \in 1..Len(list) : list[i] = stored
    THEN list[CHOOSE i \in 1..Len(list) :
                 list[i] = stored /\ \A j \in 1..(i - 1) : list[j] # stored]
    ELSE NoSession

\* The backend's next session id.
NextSid == FirstNewSid + Cardinality({ s \in AllSids : s >= FirstNewSid /\
                                         \E u \in Users : s \in Range(sessions[u]) })

\* ------------------------------------------------------------------ initial
Init ==
    /\ authUser \in {NoUser, "u1"}
    /\ loadPc = "pending"
    /\ session = NoUser
    /\ signedOut = FALSE
    /\ currentUser = NoUser
    /\ chatSession = NoSession
    /\ messages = << >>
    /\ input = ""
    /\ loading = FALSE
    /\ initLoading = FALSE
    /\ error = "none"
    /\ authError = "none"
    /\ authLoading = FALSE
    /\ authCalls = {}
    /\ atUnload = NoUnload
    /\ localPtr \in {NoPtr, StaleSid} \cup PreIds
    /\ sessions \in [Users -> UNION { InitLists(u) : u \in Users }]
    /\ \A u \in Users : sessions[u] \in InitLists(u)
    /\ titles = [ s \in AllSids |-> IF s \in PreIds THEN "Chat" ELSE "" ]
    /\ store = [ s \in AllSids |-> InitHistory(s) ]
    /\ runs = [ r \in RunIds |-> IdleRun ]
    /\ nRuns = 0
    /\ subs = [ s \in SubIds |-> IdleSub ]
    /\ nSubs = 0


\* ------------------------------------------------------- auth state changes
\* The synchronous head of initializeUserAndChat for a session that carries an
\* email: setInitLoading(true), setError(null), registerUser issued.
StartedRun(u) ==
    [ IdleRun EXCEPT !.pc = "register", !.user = u, !.nReg = 1 ]

\* setSession(newSession) with a Session object, followed by the effect that
\* depends on [session].  Every Session object the auth client hands over is
\* a new object, so the effect runs each time.
SetSessionObject(u) ==
    /\ nRuns < MaxRuns
    /\ session' = u
    /\ signedOut' = FALSE
    /\ initLoading' = TRUE
    /\ error' = "none"
    /\ nRuns' = nRuns + 1
    /\ runs' = [ runs EXCEPT ![nRuns + 1] = StartedRun(u) ]

\* setSession(null), followed by the effect when the session value changed:
\* initializeUserAndChat finds no email and only clears initLoading.
SetSessionNull ==
    /\ session' = NoUser
    /\ signedOut' = TRUE
    /\ initLoading' = IF session # NoUser THEN FALSE ELSE initLoading
    /\ UNCHANGED << error, runs, nRuns >>

\* The onAuthStateChange callback.
AuthListener(newSession) ==
    /\ authError' = "none"
    /\ IF newSession # NoUser
       THEN /\ SetSessionObject(newSession)
            /\ UNCHANGED << localPtr, currentUser, chatSession, messages >>
       ELSE /\ SetSessionNull
            /\ localPtr' = clearCurrentSession
            /\ currentUser' = NoUser
            /\ chatSession' = NoSession
            /\ messages' = << >>

\* loadSession(): supabase.auth.getSession() settles.
LoadSessionOk ==
    /\ loadPc = "pending"
    /\ loadPc' = "done"
    /\ IF authUser # NoUser THEN SetSessionObject(authUser) ELSE SetSessionNull
    /\ UNCHANGED << authUser, authError, localPtr, currentUser, chatSession, messages >>
    /\ UNCHANGED << authLoading, authCalls, atUnload >>
    /\ UNCHANGED backendVars
    /\ UNCHANGED submitVars

LoadSessionError ==
    /\ loadPc = "pending"
    /\ loadPc' = "done"
    /\ authError' = "session"
    /\ UNCHANGED << authUser, session, signedOut, currentUser, chatSession, messages,
                    initLoading, error, localPtr, runs, nRuns >>
    /\ UNCHANGED << authLoading, authCalls, atUnload >>
    /\ UNCHANGED backendVars
    /\ UNCHANGED submitVars

\* A principal signs in at the identity provider (SIGNED_IN).
SignedIn(u) ==
    /\ authUser = NoUser
    /\ authUser' = u
    /\ AuthListener(u)
    /\ UNCHANGED << loadPc, authLoading, authCalls, atUnload >>
    /\ UNCHANGED backendVars
    /\ UNCHANGED submitVars

\* A principal without an email signs in after getSession() has settled: the
\* listener stores the Session object and clears nothing; the effect finds
\* no email and only clears initLoading.
SignedInNoEmail ==
    /\ authUser = NoUser
    /\ loadPc = "done"
    /\ authUser' = NoEmail
    /\ session' = NoEmail
    /\ signedOut' = FALSE
    /\ authError' = "none"
    /\ initLoading' = FALSE
    /\ UNCHANGED << loadPc, authLoading, authCalls, atUnload, localPtr, currentUser,
                    chatSession, messages, error, runs, nRuns >>
    /\ UNCHANGED backendVars
    /\ UNCHANGED submitVars

\* The auth client reports the signed-in principal again with a new Session
\* object (INITIAL_SESSION, TOKEN_REFRESHED, USER_UPDATED).
SessionRefreshed ==
    /\ authUser # NoUser
    /\ AuthListener(authUser)
    /\ UNCHANGED << authUser, loadPc, authLoading, authCalls, atUnload >>
    /\ UNCHANGED backendVars
    /\ UNCHANGED submitVars

\* The principal signs out (SIGNED_OUT), or the auth client reports that
\* nobody is signed in (INITIAL_SESSION with a null session).
SignedOut ==
    /\ authUser' = NoUser
    /\ AuthListener(NoUser)
    /\ UNCHANGED << loadPc, authLoading, authCalls, atUnload >>
    /\ UNCHANGED backendVars
    /\ UNCHANGED submitVars

\* ------------------------------------------- handleGoogleSignIn / handleSignOut
\* The sign-in button, rendered while there is no session and disabled while
\* authLoading: setAuthError(null), setAuthLoading(true), signInWithOAuth
\* issued.  At most one sign-in call is modelled as outstanding.
SignInClicked ==
    /\ session = NoUser
    /\ ~authLoading
    /\ "signIn" \notin authCalls
    /\ authError' = "none"
    /\ authLoading' = TRUE
    /\ authCalls' = authCalls \cup {"signIn"}
    /\ UNCHANGED << authUser, loadPc, session, signedOut, atUnload, currentUser,
                    chatSession, messages, initLoading, error, localPtr, runs, nRuns >>
    /\ UNCHANGED backendVars
    /\ UNCHANGED submitVars

\* signInWithOAuth resolves without an error (the redirect to the provider
\* follows; the principal arrives later as SIGNED_IN).
SignInOk ==
    /\ "signIn" \in authCalls
    /\ authCalls' = authCalls \ {"signIn"}
    /\ authLoading' = FALSE
    /\ UNCHANGED << authUser, loadPc, session, signedOut, authError, atUnload,
                    currentUser, chatSession, messages, initLoading, error, localPtr,
                    runs, nRuns >>
    /\ UNCHANGED backendVars
    /\ UNCHANGED submitVars

\* signInWithOAuth returns an error or throws: only the auth error is set.
SignInFail ==
    /\ "signIn" \in authCalls
    /\ authCalls' = authCalls \ {"signIn"}
    /\ authError' = "signin"
    /\ authLoading' = FALSE
    /\ UNCHANGED << authUser, loadPc, session, signedOut, atUnload, currentUser,
                    chatSession, messages, initLoading, error, localPtr, runs, nRuns >>
    /\ UNCHANGED backendVars
    /\ UNCHANGED submitVars

\* The Sign Out entry of the profile menu, rendered while there is a session.
\* At most one sign-out call is modelled as outstanding.
SignOutClicked ==
    /\ session # NoUser
    /\ "signOut" \notin authCalls
    /\ authError' = "none"
    /\ authLoading' = TRUE
    /\ authCalls' = authCalls \cup {"signOut"}
    /\ UNCHANGED << authUser, loadPc, session, signedOut, atUnload, currentUser,
                    chatSession, messages, initLoading, error, localPtr, runs, nRuns >>
    /\ UNCHANGED backendVars
    /\ UNCHANGED submitVars

\* supabase.auth.signOut() resolves without an error: the auth client has
\* dropped the principal and notified the listener (SIGNED_OUT) before the
\* handler continues.
SignOutOk ==
    /\ "signOut" \in authCalls
    /\ authCalls' = authCalls \ {"signOut"}
    /\ authLoading' = FALSE
    /\ authUser' = NoUser
    /\ AuthListener(NoUser)
    /\ UNCHANGED << loadPc, atUnload >>
    /\ UNCHANGED backendVars
    /\ UNCHANGED submitVars

\* A failed sign-out handled like a completed one: the page state is cleared.
SignOutFailClears ==
    /\ "signOut" \in authCalls
    /\ authCalls' = authCalls \ {"signOut"}
    /\ authError' = "signout"
    /\ authLoading' = FALSE
    /\ session' = NoUser
    /\ signedOut' = TRUE
    /\ localPtr' = clearCurrentSession
    /\ currentUser' = NoUser
    /\ chatSession' = NoSession
    /\ messages' = << >>
    /\ UNCHANGED << authUser, loadPc, atUnload, initLoading, error, runs, nRuns >>
    /\ UNCHANGED backendVars
    /\ UNCHANGED submitVars

\* supabase.auth.signOut() returns an error or throws: only the auth error is
\* set.
SignOutFail ==
    /\ "signOut" \in authCalls
    /\ authCalls' = authCalls \ {"signOut"}
    /\ authError' = "signout"
    /\ authLoading' = FALSE
    /\ UNCHANGED << authUser, loadPc, session, signedOut, atUnload, currentUser,
                    chatSession, messages, initLoading, error, localPtr, runs, nRuns >>
    /\ UNCHANGED backendVars
    /\ UNCHANGED submitVars

\* ------------------------------------------------- initializeUserAndChat
\* A catch block without the finally: initLoading is left as it is.
InitFailedKeepsInitializing(r) ==
    /\ error' = "init"
    /\ localPtr' = clearCurrentSession
    /\ chatSession' = NoSession
    /\ messages' = << >>
    /\ runs' = [ runs EXCEPT ![r] = EndedRun(runs[r], "failed") ]
    /\ UNCHANGED << currentUser, initLoading >>
    /\ UNCHANGED backendVars

\* The catch block and the finally block.
InitFailed(r) ==
    /\ error' = "init"
    /\ localPtr' = clearCurrentSession
    /\ chatSession' = NoSession
    /\ messages' = << >>
    /\ initLoading' = FALSE
    /\ runs' = [ runs EXCEPT ![r] = EndedRun(runs[r], "failed") ]
    /\ UNCHANGED currentUser
    /\ UNCHANGED backendVars

\* registerUser resolves and the run saves the id it expects the backend to
\* give to the next session.
RegisterOkSavesPointer(r) ==
    /\ runs[r].pc = "register"
    /\ currentUser' = runs[r].user
    /\ localPtr' = saveCurrentSession(NextSid)
    /\ runs' = [ runs EXCEPT ![r].pc = "list", ![r].nList = @ + 1 ]
    /\ UNCHANGED << chatSession, messages, initLoading, error, nRuns >>
    /\ UNCHANGED authVars
    /\ UNCHANGED atUnload
    /\ UNCHANGED backendVars
    /\ UNCHANGED submitVars

\* registerUser resolves: setCurrentUser(user), getUserSessions issued.
RegisterOk(r) ==
    /\ runs[r].pc = "register"
    /\ currentUser' = runs[r].user
    /\ runs' = [ runs EXCEPT ![r].pc = "list", ![r].nList = @ + 1 ]
    /\ UNCHANGED << chatSession, messages, initLoading, error, localPtr, nRuns >>
    /\ UNCHANGED authVars
    /\ UNCHANGED atUnload
    /\ UNCHANGED backendVars
    /\ UNCHANGED submitVars

RegisterFail(r) ==
    /\ runs[r].pc = "register"
    /\ InitFailed(r)
    /\ UNCHANGED nRuns
    /\ UNCHANGED authVars
    /\ UNCHANGED atUnload
    /\ UNCHANGED submitVars

\* Step 3 of initializeUserAndChat: the session the run will use, given the
\* list the backend returned and the stored pointer.  NoSession: none yet, a
\* session has to be created.
\* Step 3 without the lookup of the stored pointer.
RestoredSessionIgnored(list, stored) == NoSession

RestoredSession(list, stored) ==
    IF stored # NoPtr /\ Len(list) > 0 THEN FindSession(list, stored) ELSE NoSession

ActiveSession(list, stored) ==
    IF RestoredSession(list, stored) # NoSession THEN RestoredSession(list, stored)
    ELSE IF Len(list) > 0 THEN list[1]
    ELSE NoSession

\* Step 3 without saveCurrentSession in the most-recent branch.
PointerNotSaved(list, stored) ==
    IF RestoredSession(list, stored) # NoSession THEN stored
    ELSE IF Len(list) > 0 THEN (IF stored # NoPtr THEN clearCurrentSession ELSE stored)
    ELSE stored

\* The pointer after step 3, before any createChatSession settles.
PointerAfterSelect(list, stored) ==
    IF RestoredSession(list, stored) # NoSession THEN stored
    ELSE IF Len(list) > 0 THEN saveCurrentSession(list[1])
    ELSE stored

\* getUserSessions resolves: the run reads the pointer, selects a session and
\* issues fetchMessages, or finds no session and issues createChatSession.
ListOk(r) ==
    /\ runs[r].pc = "list"
    /\ LET list == sessions[runs[r].user]
           stored == getCurrentSession
           active == ActiveSession(list, stored)
       IN  /\ localPtr' = PointerAfterSelect(list, stored)
           /\ IF active # NoSession
              THEN /\ chatSession' = active
                   /\ runs' = [ runs EXCEPT ![r].pc = "fetch", ![r].stored = stored,
                                            ![r].seen = list, ![r].active = active,
                                            ![r].nFetch = @ + 1 ]
              ELSE /\ chatSession' = chatSession
                   /\ runs' = [ runs EXCEPT ![r].pc = "create", ![r].stored = stored,
                                            ![r].seen = list,
                                            ![r].nCreate = @ + 1 ]
    /\ UNCHANGED << currentUser, messages, initLoading, error, nRuns >>
    /\ UNCHANGED authVars
    /\ UNCHANGED atUnload
    /\ UNCHANGED backendVars
    /\ UNCHANGED submitVars

ListFail(r) ==
    /\ runs[r].pc = "list"
    /\ InitFailed(r)
    /\ UNCHANGED nRuns
    /\ UNCHANGED authVars
    /\ UNCHANGED atUnload
    /\ UNCHANGED submitVars

\* createChatSession resolves and the run selects the new session without
\* saving its id.
CreateOkForgetsPointer(r) ==
    /\ runs[r].pc = "create"
    /\ LET new == NextSid
           u == runs[r].user
       IN  /\ sessions' = [ sessions EXCEPT ![u] = << new >> \o @ ]
           /\ titles' = [ titles EXCEPT ![new] = NewConversationTitle ]
           /\ chatSession' = new
           /\ runs' = [ runs EXCEPT ![r] = EndedRun(runs[r], "done") ]
    /\ messages' = << >>
    /\ initLoading' = FALSE
    /\ UNCHANGED << currentUser, error, store, nRuns, localPtr >>
    /\ UNCHANGED authVars
    /\ UNCHANGED atUnload
    /\ UNCHANGED submitVars

\* createChatSession resolves: the backend has added a session for the run's
\* user; the run saves its id, selects it and starts with an empty history.
CreateOk(r) ==
    /\ runs[r].pc = "create"
    /\ LET new == NextSid
           u == runs[r].user
       IN  /\ sessions' = [ sessions EXCEPT ![u] = << new >> \o @ ]
           /\ titles' = [ titles EXCEPT ![new] = NewConversationTitle ]
           /\ localPtr' = saveCurrentSession(new)
           /\ chatSession' = new
           /\ runs' = [ runs EXCEPT ![r] = EndedRun(runs[r], "done") ]
    /\ messages' = << >>
    /\ initLoading' = FALSE
    /\ UNCHANGED << currentUser, error, store, nRuns >>
    /\ UNCHANGED authVars
    /\ UNCHANGED atUnload
    /\ UNCHANGED submitVars

CreateFail(r) ==
    /\ runs[r].pc = "create"
    /\ InitFailed(r)
    /\ UNCHANGED nRuns
    /\ UNCHANGED authVars
    /\ UNCHANGED atUnload
    /\ UNCHANGED submitVars

\* What the catch block around fetchMessages does to the chat view.
MessagesAfterFetchFail(ms) == ms

\* fetchMessages resolves and the converted history is added to the view.
FetchOkAppends(r) ==
    /\ runs[r].pc = "fetch"
    /\ messages' = messages \o
                      AllFromSession(ToUiMessages(store[runs[r].active]), runs[r].active)
    /\ initLoading' = FALSE
    /\ runs' = [ runs EXCEPT ![r] = EndedRun(runs[r], "done") ]
    /\ UNCHANGED << currentUser, chatSession, error, localPtr, nRuns >>
    /\ UNCHANGED authVars
    /\ UNCHANGED atUnload
    /\ UNCHANGED backendVars
    /\ UNCHANGED submitVars

\* fetchMessages resolves: the view is replaced by the converted history.
FetchOk(r) ==
    /\ runs[r].pc = "fetch"
    /\ messages' = AllFromSession(ToUiMessages(store[runs[r].active]), runs[r].active)
    /\ initLoading' = FALSE
    /\ runs' = [ runs EXCEPT ![r] = EndedRun(runs[r], "done") ]
    /\ UNCHANGED << currentUser, chatSession, error, localPtr, nRuns >>
    /\ UNCHANGED authVars
    /\ UNCHANGED atUnload
    /\ UNCHANGED backendVars
    /\ UNCHANGED submitVars

\* fetchMessages rejects and the rejection reaches the outer catch block.
FetchFailAborts(r) ==
    /\ runs[r].pc = "fetch"
    /\ InitFailed(r)
    /\ UNCHANGED nRuns
    /\ UNCHANGED authVars
    /\ UNCHANGED atUnload
    /\ UNCHANGED submitVars

\* fetchMessages rejects: only the warning is set.
FetchFail(r) ==
    /\ runs[r].pc = "fetch"
    /\ error' = "history"
    /\ messages' = MessagesAfterFetchFail(messages)
    /\ initLoading' = FALSE
    /\ runs' = [ runs EXCEPT ![r] = EndedRun(runs[r], "warned") ]
    /\ UNCHANGED << currentUser, chatSession, localPtr, nRuns >>
    /\ UNCHANGED authVars
    /\ UNCHANGED atUnload
    /\ UNCHANGED backendVars
    /\ UNCHANGED submitVars


\* A form that stays enabled while a submit is awaiting its response.
InputEnabledWhileLoading == session # NoUser /\ ~initLoading

\* ------------------------------------------------------------ handleSubmit
\* The form is rendered for a signed-in principal; the text input is disabled
\* while loading or initLoading.
InputEnabled == session # NoUser /\ ~loading /\ ~initLoading

\* The submit button is disabled as well while the input is blank.
SubmitEnabled == InputEnabled /\ ~Blank(input)

\* onChange of the text input.
TypeInput(t) ==
    /\ InputEnabled
    /\ nSubs < MaxSubmits
    /\ input # t
    /\ input' = t
    /\ UNCHANGED << currentUser, chatSession, messages, loading, initLoading, error,
                    localPtr, runs, nRuns, subs, nSubs >>
    /\ UNCHANGED authVars
    /\ UNCHANGED atUnload
    /\ UNCHANGED backendVars

\* session?.user?.email is present
HasEmail(u) == u \in Users

\* handleSubmit is called with blank input and returns at once.
SubmitBlank ==
    /\ session # NoUser
    /\ Blank(input)
    /\ UNCHANGED vars

\* handleSubmit finds no email in the session: only the error is set.
SubmitNoPrincipal ==
    /\ SubmitEnabled
    /\ ~HasEmail(session)
    /\ error # "nosignin"
    /\ error' = "nosignin"
    /\ UNCHANGED << currentUser, chatSession, messages, initLoading, localPtr,
                    runs, nRuns >>
    /\ UNCHANGED authVars
    /\ UNCHANGED atUnload
    /\ UNCHANGED backendVars
    /\ UNCHANGED submitVars

\* A rejection that also empties the text input.
SubmitRejectedClearsInput ==
    /\ SubmitEnabled
    /\ HasEmail(session)
    /\ chatSession = NoSession
    /\ error # "nosession"
    /\ error' = "nosession"
    /\ input' = ""
    /\ UNCHANGED << currentUser, chatSession, messages, initLoading, localPtr,
                    runs, nRuns, subs, nSubs, loading >>
    /\ UNCHANGED authVars
    /\ UNCHANGED atUnload
    /\ UNCHANGED backendVars

\* handleSubmit finds no chat session: only the error is set.
SubmitRejected ==
    /\ SubmitEnabled
    /\ HasEmail(session)
    /\ chatSession = NoSession
    /\ error # "nosession"
    /\ error' = "nosession"
    /\ UNCHANGED << currentUser, chatSession, messages, initLoading, localPtr,
                    runs, nRuns >>
    /\ UNCHANGED authVars
    /\ UNCHANGED atUnload
    /\ UNCHANGED backendVars
    /\ UNCHANGED submitVars

\* The page accepts a submit of non-blank text: the form is enabled and
\* handleSubmit passes its session and chatSession checks.
AcceptsSubmit == InputEnabled /\ HasEmail(session) /\ chatSession # NoSession

\* handleSubmit accepts: the user message is shown, the input cleared, loading
\* set, and storeMessage(chatSession.id, "user", userQuery) issued.
SubmitAccepted ==
    /\ AcceptsSubmit
    /\ ~Blank(input)
    /\ nSubs < MaxSubmits
    /\ messages' = Append(messages,
                           FromSession([ type |-> "user", content |-> input ], chatSession))
    /\ input' = ""
    /\ loading' = TRUE
    /\ error' = "none"
    /\ nSubs' = nSubs + 1
    /\ subs' = [ subs EXCEPT ![nSubs + 1] =
                   [ pc |-> "storeUser", sid |-> chatSession, text |-> input,
                     answer |-> "" ] ]
    /\ UNCHANGED << currentUser, chatSession, initLoading, localPtr, runs, nRuns >>
    /\ UNCHANGED authVars
    /\ UNCHANGED atUnload
    /\ UNCHANGED backendVars

\* A catch path whose finally does not clear loading.
SubmitFailedStaysLoading(s) ==
    /\ error' = "send"
    /\ subs' = [ subs EXCEPT ![s] = EndedSub("failed") ]
    /\ UNCHANGED << currentUser, chatSession, messages, input, loading, initLoading,
                    localPtr, runs, nRuns, nSubs >>
    /\ UNCHANGED authVars
    /\ UNCHANGED atUnload
    /\ UNCHANGED backendVars

\* The catch block and the finally block of handleSubmit.
SubmitFailed(s) ==
    /\ error' = "send"
    /\ loading' = FALSE
    /\ subs' = [ subs EXCEPT ![s] = EndedSub("failed") ]
    /\ UNCHANGED << currentUser, chatSession, messages, input, initLoading, localPtr,
                    runs, nRuns, nSubs >>
    /\ UNCHANGED authVars
    /\ UNCHANGED atUnload
    /\ UNCHANGED backendVars

\* storeMessage resolves having stored the user's text under the other role.
StoreUserOkAsAssistant(s) ==
    /\ subs[s].pc = "storeUser"
    /\ store' = [ store EXCEPT ![subs[s].sid] =
                    Append(@, [ role |-> "assistant", content |-> subs[s].text ]) ]
    /\ subs' = [ subs EXCEPT ![s].pc = "send" ]
    /\ UNCHANGED << currentUser, chatSession, messages, input, loading, initLoading,
                    error, localPtr, sessions, titles, runs, nRuns, nSubs >>
    /\ UNCHANGED authVars
    /\ UNCHANGED atUnload

\* storeMessage(role user) resolves: sendChatMessage issued.
StoreUserOk(s) ==
    /\ subs[s].pc = "storeUser"
    /\ store' = [ store EXCEPT ![subs[s].sid] =
                    Append(@, [ role |-> "user", content |-> subs[s].text ]) ]
    /\ subs' = [ subs EXCEPT ![s].pc = "send" ]
    /\ UNCHANGED << currentUser, chatSession, messages, input, loading, initLoading,
                    error, localPtr, sessions, titles, runs, nRuns, nSubs >>
    /\ UNCHANGED authVars
    /\ UNCHANGED atUnload

StoreUserFail(s) ==
    /\ subs[s].pc = "storeUser"
    /\ SubmitFailed(s)

\* sendChatMessage resolves: storeMessage(role assistant) issued.
SendOk(s, ans) ==
    /\ subs[s].pc = "send"
    /\ subs' = [ subs EXCEPT ![s].pc = "storeAi", ![s].answer = ans ]
    /\ UNCHANGED << currentUser, chatSession, messages, input, loading, initLoading,
                    error, localPtr, runs, nRuns, nSubs >>
    /\ UNCHANGED authVars
    /\ UNCHANGED atUnload
    /\ UNCHANGED backendVars

\* A rejected sendChatMessage answered by issuing the submit's calls again.
SendFailRetries(s) ==
    /\ subs[s].pc = "send"
    /\ subs' = [ subs EXCEPT ![s].pc = "storeUser" ]
    /\ UNCHANGED << currentUser, chatSession, messages, input, loading, initLoading,
                    error, localPtr, runs, nRuns, nSubs >>
    /\ UNCHANGED authVars
    /\ UNCHANGED atUnload
    /\ UNCHANGED backendVars

\* sendChatMessage rejects: catch and finally of handleSubmit.
SendFail(s) ==
    /\ subs[s].pc = "send"
    /\ SubmitFailed(s)

\* data.final_answer || "No response generated"
ShownAnswer(ans) == IF ans = "" THEN "No response generated" ELSE ans

\* storeMessage(role assistant) resolves: the answer is shown.
StoreAiOk(s) ==
    /\ subs[s].pc = "storeAi"
    /\ store' = [ store EXCEPT ![subs[s].sid] =
                    Append(@, [ role |-> "assistant", content |-> subs[s].answer ]) ]
    /\ messages' = Append(messages,
                           FromSession([ type |-> "ai",
                                         content |-> ShownAnswer(subs[s].answer) ],
                                       subs[s].sid))
    /\ loading' = FALSE
    /\ subs' = [ subs EXCEPT ![s] = EndedSub("done") ]
    /\ UNCHANGED << currentUser, chatSession, input, initLoading, error, localPtr,
                    sessions, titles, runs, nRuns, nSubs >>
    /\ UNCHANGED authVars
    /\ UNCHANGED atUnload

StoreAiFail(s) ==
    /\ subs[s].pc = "storeAi"
    /\ SubmitFailed(s)

\* ------------------------------------------------------------- page reload
\* The browser reloads a quiescent page that shows a conversation: the
\* component is mounted again with its initial state and loadSession() is
\* issued; the auth client's principal, localStorage and the backend stay.
\* atUnload records the view and the selection the page had, and whether
\* the page had hydrated that session and completed every send.
PageRefresh ==
    /\ nRuns > 0
    /\ nRuns < MaxRuns
    /\ chatSession # NoSession
    /\ authCalls = {}
    /\ \A r \in RunIds : runs[r].pc \notin InFlight
    /\ \A s \in SubIds : subs[s].pc \notin SubInFlight
    /\ atUnload' = [ sid |-> chatSession, view |-> Shown(messages),
                     clean |-> /\ runs[nRuns].pc = "done"
                               /\ \A s \in SubIds : subs[s].pc \in {"idle", "done"} ]
    /\ loadPc' = "pending"
    /\ session' = NoUser
    /\ signedOut' = FALSE
    /\ currentUser' = NoUser
    /\ chatSession' = NoSession
    /\ messages' = << >>
    /\ input' = ""
    /\ loading' = FALSE
    /\ initLoading' = FALSE
    /\ error' = "none"
    /\ authError' = "none"
    /\ authLoading' = FALSE
    /\ UNCHANGED << authUser, authCalls, localPtr, runs, nRuns, subs, nSubs >>
    /\ UNCHANGED backendVars

\* ------------------------------------------------------------ specification
\* One life of the page with two principals: the auth events as the listener
\* sees them, whatever caused them, the reconciliation runs and the chat
\* form.  The clicks on the auth controls are in NextAuth and NextPage, the
\* reload of the page in NextRefresh.
Next ==
    \/ LoadSessionOk
    \/ LoadSessionError
    \/ \E u \in Users : SignedIn(u)
    \/ SessionRefreshed
    \/ SignedOut
    \/ \E r \in RunIds : RegisterOk(r)
    \/ \E r \in RunIds : RegisterFail(r)
    \/ \E r \in RunIds : ListOk(r)
    \/ \E r \in RunIds : ListFail(r)
    \/ \E r \in RunIds : CreateOk(r)
    \/ \E r \in RunIds : CreateFail(r)
    \/ \E r \in RunIds : FetchOk(r)
    \/ \E r \in RunIds : FetchFail(r)
    \/ \E t \in InputTexts : TypeInput(t)
    \/ SubmitRejected
    \/ SubmitAccepted
    \/ \E s \in SubIds : StoreUserOk(s)
    \/ \E s \in SubIds : StoreUserFail(s)
    \/ \E s \in SubIds, ans \in Answers : SendOk(s, ans)
    \/ \E s \in SubIds : SendFail(s)
    \/ \E s \in SubIds : StoreAiOk(s)
    \/ \E s \in SubIds : StoreAiFail(s)

Spec == Init /\ [][Next]_vars

TypeOK ==
    /\ authUser \in Users \cup {NoUser, NoEmail}
    /\ session \in Users \cup {NoUser, NoEmail}
    /\ chatSession \in AllSids \cup {NoSession}
    /\ localPtr \in AllSids \cup {NoPtr, StaleSid}
    /\ nRuns \in 0..MaxRuns
    /\ nSubs \in 0..MaxSubmits
    /\ \A r \in RunIds : runs[r].pc \in {"idle"} \cup InFlight \cup Finished
    /\ authLoading \in BOOLEAN
    /\ authCalls \subseteq {"signIn", "signOut"}
    /\ atUnload.sid \in AllSids \cup {NoSession}


\* The page with a user who signs in and out but sends nothing: the auth
\* events and the reconciliation runs alone.
NextReconcile ==
    \/ LoadSessionOk
    \/ LoadSessionError
    \/ \E u \in Users : SignedIn(u)
    \/ SessionRefreshed
    \/ SignedOut
    \/ \E r \in RunIds : RegisterOk(r)
    \/ \E r \in RunIds : RegisterFail(r)
    \/ \E r \in RunIds : ListOk(r)
    \/ \E r \in RunIds : ListFail(r)
    \/ \E r \in RunIds : CreateOk(r)
    \/ \E r \in RunIds : CreateFail(r)
    \/ \E r \in RunIds : FetchOk(r)
    \/ \E r \in RunIds : FetchFail(r)

SpecReconcile == Init /\ [][NextReconcile]_vars

\* ------------------------------------------------------------------ claims
\* Steps of a run, recognised by the move of its position.
ListOkStep(r) == runs[r].pc = "list" /\ runs'[r].pc \in {"fetch", "create"}
CreateOkStep(r) == runs[r].pc = "create" /\ runs'[r].pc = "done"
FetchOkStep(r) == runs[r].pc = "fetch" /\ runs'[r].pc = "done"
FetchFailStep(r) == runs[r].pc = "fetch" /\ runs'[r].pc = "warned"
InitFailStep(r) == runs[r].pc \in {"register", "list", "create"} /\ runs'[r].pc = "failed"
CompletesStep(r) == CreateOkStep(r) \/ FetchOkStep(r) \/ FetchFailStep(r)

\* The sessions the backend holds for user u.
Owned(u) == Range(sessions[u])

\* The sessions of u that were created since the page was opened.
CreatedFor(u) == { s \in Owned(u) : s >= FirstNewSid }

\* C1: when registerUser and getUserSessions succeeded and the stored pointer
\* is the id of an entry of the returned list, the run selects that entry as
\* the chat session, issues fetchMessages for it (once), leaves the pointer
\* as it was and creates no session, up to and including its completion.
C1_RestoresStoredSession ==
    /\ [][\A r \in RunIds :
            /\ (ListOkStep(r) /\ localPtr \in Owned(runs[r].user))
                 => /\ chatSession' = localPtr
                    /\ localPtr' = localPtr
                    /\ runs'[r].pc = "fetch"
                    /\ runs'[r].active = localPtr
                    /\ runs'[r].nFetch = 1
                    /\ runs'[r].nCreate = 0
                    /\ sessions' = sessions
            /\ (FetchOkStep(r) \/ FetchFailStep(r))
                 => /\ runs[r].nCreate = 0
                    /\ sessions' = sessions
                    /\ localPtr' = localPtr]_vars

C1_Witness ==
    \E r \in RunIds :
        /\ runs[r].pc = "fetch"
        /\ runs[r].stored \in Range(runs[r].seen)
        /\ Len(runs[r].seen) > 1
        /\ runs[r].seen[1] # runs[r].stored
        /\ chatSession = runs[r].stored
        /\ localPtr = runs[r].stored

\* C2: when the returned list is non-empty and the stored pointer is absent
\* or matches no entry, the run selects the first entry, saves its id as the
\* pointer, issues fetchMessages for it and creates no session; a stale
\* pointer value is neither selected nor kept.
C2_FallsBackToMostRecent ==
    [][\A r \in RunIds :
         LET list == sessions[runs[r].user] IN
         (ListOkStep(r) /\ Len(list) > 0 /\ localPtr \notin Range(list))
           => /\ chatSession' = list[1]
              /\ localPtr' = list[1]
              /\ chatSession' # localPtr
              /\ runs'[r].pc = "fetch"
              /\ runs'[r].active = list[1]
              /\ runs'[r].nFetch = 1
              /\ runs'[r].nCreate = 0
              /\ sessions' = sessions]_vars

C2_Witness ==
    \E r \in RunIds :
        /\ runs[r].pc = "fetch"
        /\ runs[r].stored # NoPtr
        /\ runs[r].stored \notin Range(runs[r].seen)
        /\ Len(runs[r].seen) > 1
        /\ runs[r].active = runs[r].seen[1]
        /\ chatSession = runs[r].seen[1]
        /\ localPtr = runs[r].seen[1]

\* C3: when the returned list is empty the run issues createChatSession once,
\* with the title "New Conversation", and no fetchMessages; when the call
\* resolves the backend holds one more session for the user, carrying that
\* title, and the run selects it, saves its id as the pointer and empties the
\* chat view.
C3_CreatesWhenNoSessions ==
    [][\A r \in RunIds :
         LET u == runs[r].user IN
         /\ (ListOkStep(r) /\ Len(sessions[u]) = 0)
              => /\ runs'[r].pc = "create"
                 /\ runs'[r].nCreate = 1
                 /\ runs'[r].nFetch = 0
         /\ CreateOkStep(r)
              => /\ runs[r].seen = << >>
                 /\ runs[r].nCreate = 1
                 /\ runs[r].nFetch = 0
                 /\ Len(sessions'[u]) = Len(sessions[u]) + 1
                 /\ \A v \in Users : sessions'[u][1] \notin Owned(v)
                 /\ titles'[sessions'[u][1]] = "New Conversation"
                 /\ chatSession' = sessions'[u][1]
                 /\ localPtr' = sessions'[u][1]
                 /\ messages' = << >>]_vars

C3_Witness ==
    \E r \in RunIds :
        /\ runs[r].pc = "done"
        /\ CreatedFor(runs[r].user) # {}
        /\ chatSession \in CreatedFor(runs[r].user)
        /\ localPtr = chatSession
        /\ titles[chatSession] = "New Conversation"
        /\ messages = << >>


\* C4: whenever a run completes without an initialization error, the selected
\* chat session is a session the backend holds for the signed-in user and the
\* pointer is present and holds that session's id.
C4_CompletesWithValidPointer ==
    [][\A r \in RunIds :
         CompletesStep(r)
           => /\ session' # NoUser
              /\ chatSession' \in Owned(session)'
              /\ localPtr' # NoPtr
              /\ localPtr' = chatSession']_vars

\* C5: a user whose session list was empty gets exactly one session created
\* by reconciliation, however the auth events and the runs interleave.
C5_AtMostOneSessionCreated ==
    \A u \in Users : Cardinality(CreatedFor(u)) <= 1

\* C6: when registerUser, getUserSessions or createChatSession rejects, the
\* run ends there: the pointer is removed, no chat session is selected, the
\* chat view is empty, an error is set, and the run, which issued each of its
\* calls at most once, issues no further call.
C6_InitFailureAborts ==
    /\ [][\A r \in RunIds :
            /\ InitFailStep(r)
                 => /\ localPtr' = NoPtr
                    /\ chatSession' = NoSession
                    /\ messages' = << >>
                    /\ error' = "init"
                    /\ runs[r].nReg <= 1 /\ runs[r].nList <= 1
                    /\ runs[r].nCreate <= 1 /\ runs[r].nFetch = 0
                    /\ sessions' = sessions
            /\ runs[r].pc = "failed" => runs'[r] = runs[r]]_vars

C6_Witness ==
    /\ \E r \in RunIds : runs[r].pc = "failed" /\ runs[r].user = session
    /\ \A r \in RunIds : runs[r].pc \notin InFlight
    /\ error = "init"
    /\ localPtr = NoPtr
    /\ chatSession = NoSession
    /\ \E u \in Users : Len(sessions[u]) > 1

\* C7: a run that awaits fetchMessages never ends in the initialization
\* failure; when fetchMessages rejects, the run keeps the selection: the chat
\* session and the pointer are what they were before the rejection, the
\* warning is set, initLoading is false, and, for a signed-in principal with
\* a selected session and no response awaited, a submit is accepted.
C7_HydrationFailureKeepsSelection ==
    [][\A r \in RunIds :
         /\ runs[r].pc = "fetch" => runs'[r].pc \in {"fetch", "done", "warned"}
         /\ FetchFailStep(r)
           => /\ chatSession' = chatSession
              /\ localPtr' = localPtr
              /\ error' = "history"
              /\ initLoading' = FALSE
              /\ (session # NoUser /\ chatSession = runs[r].active /\ ~loading)
                   => AcceptsSubmit']_vars

C7_Witness ==
    /\ \E r \in RunIds : runs[r].pc = "warned" /\ runs[r].user = session
    /\ error = "history"
    /\ chatSession # NoSession
    /\ chatSession \in Owned(session)
    /\ localPtr = chatSession
    /\ AcceptsSubmit

\* C8: when fetchMessages rejects, the chat view is empty once the run has
\* completed, whatever it showed before.
C8_HydrationFailureEmptiesView ==
    [][\A r \in RunIds : FetchFailStep(r) => messages' = << >>]_vars

\* C9: while the last auth state the page handled has no principal, the
\* pointer is absent, no chat session is selected and the chat view is empty.
C9_SignedOutStaysCleared ==
    signedOut => (localPtr = NoPtr /\ chatSession = NoSession /\ messages = << >>)

\* The run started for the Session object the page holds now.
LatestRun == runs[nRuns]

\* C10: once the run for the current principal has completed, a present
\* pointer names a session of that principal.
C10_PointerBelongsToPrincipal ==
    (session # NoUser /\ nRuns > 0 /\ LatestRun.pc \in Finished /\ localPtr # NoPtr)
      => localPtr \in Owned(session)


\* C11: every entry of the chat view was loaded from, or submitted to, the
\* chat session that is selected now, and with no session selected the view
\* is empty.
C11_ViewShowsSelectedSession ==
    /\ chatSession = NoSession => messages = << >>
    /\ \A i \in 1..Len(messages) : messages[i].src = chatSession


\* The page used by one principal, u1, who signs in and out, receives new
\* Session objects and chats; the synthesis returns a non-empty answer.  What
\* a stale or foreign pointer does to reconciliation is left to SpecReconcile.
NextChat ==
    \/ LoadSessionOk
    \/ SignedIn("u1")
    \/ SessionRefreshed
    \/ SignedOut
    \/ \E r \in RunIds : RegisterOk(r)
    \/ \E r \in RunIds : RegisterFail(r)
    \/ \E r \in RunIds : ListOk(r)
    \/ \E r \in RunIds : ListFail(r)
    \/ \E r \in RunIds : CreateOk(r)
    \/ \E r \in RunIds : CreateFail(r)
    \/ \E r \in RunIds : FetchOk(r)
    \/ \E r \in RunIds : FetchFail(r)
    \/ \E t \in InputTexts : TypeInput(t)
    \/ SubmitRejected
    \/ SubmitAccepted
    \/ \E s \in SubIds : StoreUserOk(s)
    \/ \E s \in SubIds : StoreUserFail(s)
    \/ \E s \in SubIds : SendOk(s, "a")
    \/ \E s \in SubIds : SendFail(s)
    \/ \E s \in SubIds : StoreAiOk(s)
    \/ \E s \in SubIds : StoreAiFail(s)

\* The page opens for a user with no conversation or with one, and with no
\* pointer stored or with the pointer at session 1.
InitChat ==
    /\ Init
    /\ localPtr \in {NoPtr, 1}
    /\ Len(sessions["u1"]) <= 1

\* The same, with the user signed in at the identity provider.
InitSignedIn == InitChat /\ authUser = "u1"

SpecChat == InitChat /\ [][NextChat]_vars

\* Steps of a submit, recognised by the move of its position.
SubmitStep(s) == subs[s].pc = "idle" /\ subs'[s].pc = "storeUser"
StoreUserOkStep(s) == subs[s].pc = "storeUser" /\ subs'[s].pc = "send"
SendOkStep(s) == subs[s].pc = "send" /\ subs'[s].pc = "storeAi"
StoreAiOkStep(s) == subs[s].pc = "storeAi" /\ subs'[s].pc = "done"
SubmitFailStep(s) == subs[s].pc \in {"storeUser", "send", "storeAi"} /\ subs'[s].pc = "failed"

UserTurn(text) == [ role |-> "user", content |-> text ]
AssistantTurn(text) == [ role |-> "assistant", content |-> text ]

\* C12: an accepted submit works on the session selected at submit time and
\* moves storeMessage(user) -> sendChatMessage -> storeMessage(assistant),
\* each call issued by the continuation of the previous one's success; the
\* store of that session gets the user turn, then the assistant turn, and
\* nothing else; the answer enters the view in the step in which the
\* assistant storeMessage resolved, and in no other step of the submit.
C12_SubmitCallOrder ==
    [][\A s \in SubIds :
         LET sid == subs[s].sid IN
         /\ subs[s].pc = "idle" => subs'[s].pc \in {"idle", "storeUser"}
         /\ subs[s].pc = "storeUser" => subs'[s].pc \in {"storeUser", "send", "failed"}
         /\ subs[s].pc = "send" => subs'[s].pc \in {"send", "storeAi", "failed"}
         /\ subs[s].pc = "storeAi" => subs'[s].pc \in {"storeAi", "done", "failed"}
         /\ SubmitStep(s)
              => /\ subs'[s].sid = chatSession
                 /\ subs'[s].text = input
                 /\ store' = store
         /\ StoreUserOkStep(s)
              => /\ store' = [ store EXCEPT ![sid] = Append(@, UserTurn(subs[s].text)) ]
                 /\ messages' = messages
         /\ SendOkStep(s)
              => /\ store' = store
                 /\ messages' = messages
         /\ StoreAiOkStep(s)
              => /\ store' = [ store EXCEPT ![sid] = Append(@, AssistantTurn(subs[s].answer)) ]
                 /\ \E i \in 1..Len(store[sid]) : store[sid][i] = UserTurn(subs[s].text)
                 /\ Len(messages') = Len(messages) + 1
                 /\ messages'[Len(messages')].type = "ai"
         /\ SubmitFailStep(s)
              => /\ store' = store
                 /\ messages' = messages]_vars

C12_Witness ==
    /\ \E s \in SubIds : subs[s].pc = "done"
    /\ chatSession # NoSession
    /\ Len(store[chatSession]) >= 2
    /\ store[chatSession][Len(store[chatSession])] = AssistantTurn("a")
    /\ store[chatSession][Len(store[chatSession]) - 1] = UserTurn("q")
    /\ Len(messages) >= 2
    /\ messages[Len(messages)].type = "ai"
    /\ messages[Len(messages) - 1].type = "user"

\* The step in which a submit leaves an awaited call other than by its success.
LeavesByFailure(s) ==
    \/ subs[s].pc = "send" /\ subs'[s].pc \notin {"send", "storeAi"}
    \/ subs[s].pc = "storeAi" /\ subs'[s].pc \notin {"storeAi", "done"}

\* C13: when sendChatMessage or the assistant storeMessage fails after the
\* user's storeMessage succeeded, the submit ends there: the store is left as
\* it is, with the user turn as the last entry of the submit's session (not
\* rolled back, not stored again), the view is left as it is, the error is
\* set and loading cleared; a failed submit never moves again.
C13_FailureIsolation ==
    [][\A s \in SubIds :
         /\ LeavesByFailure(s) =>
               /\ subs'[s].pc = "failed"
               /\ store' = store
               /\ Len(store[subs[s].sid]) > 0
               /\ store[subs[s].sid][Len(store[subs[s].sid])] = UserTurn(subs[s].text)
               /\ messages' = messages
               /\ error' = "send"
               /\ loading' = FALSE
         /\ subs[s].pc = "failed" => subs'[s].pc = "failed"]_vars

\* A submit failed after its user turn was stored: the turn ends the store of
\* the selected session and the view, the error is shown, the form is idle.
C13_Witness ==
    /\ \E s \in SubIds : subs[s].pc = "failed"
    /\ chatSession # NoSession
    /\ error = "send"
    /\ ~loading
    /\ nSubs = 1
    /\ Len(store[chatSession]) > 0
    /\ store[chatSession][Len(store[chatSession])] = UserTurn("q")
    /\ Len(messages) > 0
    /\ messages[Len(messages)].type = "user"
    /\ messages[Len(messages)].content = "q"

\* C14: at most one submit has a call outstanding, loading is true while it
\* has, and a submit is accepted only when loading is false and no earlier
\* submit is still awaiting a call, whatever auth events came in between.
C14_OneRequestOutstanding ==
    /\ [](/\ Cardinality({ s \in SubIds : subs[s].pc \in SubInFlight }) <= 1
          /\ (\E s \in SubIds : subs[s].pc \in SubInFlight) => loading)
    /\ [][\A s \in SubIds :
            SubmitStep(s) =>
              /\ ~loading
              /\ \A t \in SubIds : subs[t].pc \notin SubInFlight]_vars

\* A synthesis request is still pending after a later auth event emptied the
\* view and a later run selected a session again without hydrating it: the
\* user is signed in, reconciliation has finished, and only the loading flag
\* keeps the form disabled.
C14_Witness ==
    /\ \E s \in SubIds : subs[s].pc = "send"
    /\ loading
    /\ session # NoUser
    /\ chatSession # NoSession
    /\ ~initLoading
    /\ messages = << >>
    /\ nSubs < MaxSubmits

\* Every network call of a submit eventually settles, by success or failure.
CallsSettle ==
    \A s \in SubIds :
      /\ WF_vars(StoreUserOk(s) \/ StoreUserFail(s))
      /\ WF_vars(SendOk(s, "a") \/ SendFail(s))
      /\ WF_vars(StoreAiOk(s) \/ StoreAiFail(s))

SpecChatLive == SpecChat /\ CallsSettle

\* The step in which the call sequence of a submit settles.
SettleStep(s) == subs[s].pc \in SubInFlight /\ subs'[s].pc \notin SubInFlight

\* C15: idle -> awaiting_response -> idle.  An accepted submit sets loading;
\* loading is true exactly while a call of a submit is outstanding; the step
\* in which the sequence settles, by success or by failure, clears it; and
\* when every network call eventually settles, a loading view eventually is
\* idle again.
C15_LoadingFollowsSubmit ==
    /\ [](loading <=> \E s \in SubIds : subs[s].pc \in SubInFlight)
    /\ [][\A s \in SubIds :
            /\ SubmitStep(s) => ~loading /\ loading'
            /\ SettleStep(s) => loading /\ ~loading'
            /\ subs[s].pc \in SubInFlight /\ ~SettleStep(s) => loading']_vars
    /\ (loading ~> ~loading)

\* Two submits went idle -> awaiting_response -> idle, the first by a failure
\* and the second by success.
C15_Witness ==
    /\ nSubs = 2
    /\ subs[1].pc = "failed"
    /\ subs[2].pc = "done"
    /\ ~loading

\* C16: while a reconciliation run is in flight, initLoading is true and the
\* input form is disabled, also when runs overlap.
C16_InitializingCoversRuns ==
    (\E r \in RunIds : runs[r].pc \in InFlight) => (initLoading /\ ~InputEnabled)

\* One user chats and reloads the page; the synthesis returns any answer.
NextRefresh ==
    \/ LoadSessionOk
    \/ \E r \in RunIds : RegisterOk(r)
    \/ \E r \in RunIds : RegisterFail(r)
    \/ \E r \in RunIds : ListOk(r)
    \/ \E r \in RunIds : ListFail(r)
    \/ \E r \in RunIds : CreateOk(r)
    \/ \E r \in RunIds : CreateFail(r)
    \/ \E r \in RunIds : FetchOk(r)
    \/ \E r \in RunIds : FetchFail(r)
    \/ \E t \in InputTexts : TypeInput(t)
    \/ SubmitRejected
    \/ SubmitAccepted
    \/ \E s \in SubIds : StoreUserOk(s)
    \/ \E s \in SubIds : StoreUserFail(s)
    \/ \E s \in SubIds, ans \in Answers : SendOk(s, ans)
    \/ \E s \in SubIds : SendFail(s)
    \/ \E s \in SubIds : StoreAiOk(s)
    \/ \E s \in SubIds : StoreAiFail(s)
    \/ PageRefresh

SpecRefresh == InitSignedIn /\ [][NextRefresh]_vars

\* C17: history persists across a reload.  When the page had hydrated its
\* session and every send had completed, and after the reload the run
\* hydrates the same session, the view shows what it showed at the reload:
\* the same entries in the same order, each with the same type and text.
C17_HistoryPersistsAcrossRefresh ==
    [][\A r \in RunIds :
         (FetchOkStep(r) /\ atUnload.clean /\ runs[r].active = atUnload.sid)
           => Shown(messages') = atUnload.view]_vars

\* One user and the auth controls of the page: the sign-in button, the Sign
\* Out entry, the auth events and the reconciliation runs they start.
NextAuth ==
    \/ LoadSessionOk
    \/ LoadSessionError
    \/ SignedIn("u1")
    \/ SessionRefreshed
    \/ SignedOut
    \/ SignInClicked
    \/ SignInOk
    \/ SignInFail
    \/ SignOutClicked
    \/ SignOutOk
    \/ SignOutFail
    \/ \E r \in RunIds : RegisterOk(r)
    \/ \E r \in RunIds : RegisterFail(r)
    \/ \E r \in RunIds : ListOk(r)
    \/ \E r \in RunIds : ListFail(r)
    \/ \E r \in RunIds : CreateOk(r)
    \/ \E r \in RunIds : CreateFail(r)
    \/ \E r \in RunIds : FetchOk(r)
    \/ \E r \in RunIds : FetchFail(r)

SpecAuth == InitChat /\ [][NextAuth]_vars

\* One signed-in user with the auth controls, the reconciliation runs and the
\* chat form; the principal changes only through the controls.
NextPage ==
    \/ LoadSessionOk
    \/ SignedIn("u1")
    \/ SignInClicked
    \/ SignInOk
    \/ SignInFail
    \/ SignOutClicked
    \/ SignOutOk
    \/ SignOutFail
    \/ \E r \in RunIds : RegisterOk(r)
    \/ \E r \in RunIds : RegisterFail(r)
    \/ \E r \in RunIds : ListOk(r)
    \/ \E r \in RunIds : ListFail(r)
    \/ \E r \in RunIds : CreateOk(r)
    \/ \E r \in RunIds : CreateFail(r)
    \/ \E r \in RunIds : FetchOk(r)
    \/ \E r \in RunIds : FetchFail(r)
    \/ \E t \in InputTexts : TypeInput(t)
    \/ SubmitRejected
    \/ SubmitAccepted
    \/ \E s \in SubIds : StoreUserOk(s)
    \/ \E s \in SubIds : StoreUserFail(s)
    \/ \E s \in SubIds : SendOk(s, "a")
    \/ \E s \in SubIds : SendFail(s)
    \/ \E s \in SubIds : StoreAiOk(s)
    \/ \E s \in SubIds : StoreAiFail(s)

SpecPage == InitSignedIn /\ [][NextPage]_vars

\* The step in which the auth call k of a handler settles.
AuthSettleStep(k) == k \in authCalls /\ k \notin authCalls'

\* The listener handles an auth state without a principal.
NullAuthStep == session' = NoUser /\ signedOut' /\ loadPc' = loadPc

\* C18: the pointer changes only in a step of a reconciliation run in which
\* a backend response arrives, getUserSessions or createChatSession, and then
\* to the id of a session that response names, which the run also selects;
\* or it is removed, when the listener handles an auth state without a
\* principal or a run fails to initialize.  No step of a submit, no outcome
\* of fetchMessages and no failed sign-in or sign-out changes it.
C18_PointerWrittenOnlyByRuns ==
    [][/\ localPtr' # localPtr =>
            \/ \E r \in RunIds :
                 /\ ListOkStep(r)
                 /\ localPtr' \in Range(sessions[runs[r].user])
                 /\ localPtr' = chatSession'
            \/ \E r \in RunIds :
                 /\ CreateOkStep(r)
                 /\ localPtr' \in Range(sessions'[runs[r].user])
                 /\ localPtr' \notin Range(sessions[runs[r].user])
                 /\ localPtr' = chatSession'
            \/ localPtr' = NoPtr /\ NullAuthStep
            \/ localPtr' = NoPtr /\ \E r \in RunIds : InitFailStep(r)
       /\ subs' # subs => localPtr' = localPtr
       /\ \A r \in RunIds :
            runs[r].pc = "fetch" /\ runs'[r].pc # "fetch" => localPtr' = localPtr
       /\ \A k \in {"signIn", "signOut"} :
            AuthSettleStep(k) /\ authError' \in {"signin", "signout"}
              => localPtr' = localPtr]_vars

\* The pointer holds the id of the session a run created and selected, a
\* send has completed in it, and a sign-out has failed since.
C18_Witness ==
    /\ localPtr >= FirstNewSid
    /\ localPtr \in AllSids
    /\ localPtr = chatSession
    /\ \E s \in SubIds : subs[s].pc = "done"
    /\ authError = "signout"
    /\ authCalls = {}

\* C19: a sign-in or sign-out attempt that settles leaves authLoading false,
\* and unless it is a sign-out that succeeded it changes nothing but the
\* auth error: the principal, the session, the pointer, the selected chat
\* session, the chat view and the chat error stay as they are.  A failed
\* getSession() at page load likewise sets only the auth error.
C19_AuthErrorsNotFatal ==
    [][/\ \A k \in {"signIn", "signOut"} :
            AuthSettleStep(k) =>
              /\ authLoading' = FALSE
              /\ \/ /\ k = "signOut"
                    /\ authUser' = NoUser
                    /\ session' = NoUser
                    /\ authError' = "none"
                 \/ /\ authError' \in {authError,
                                       IF k = "signIn" THEN "signin" ELSE "signout"}
                    /\ authUser' = authUser
                    /\ session' = session
                    /\ localPtr' = localPtr
                    /\ chatSession' = chatSession
                    /\ messages' = messages
                    /\ error' = error
       /\ (loadPc = "pending" /\ loadPc' = "done" /\ authError' = "session") =>
            /\ authUser' = authUser
            /\ session' = session
            /\ localPtr' = localPtr
            /\ chatSession' = chatSession
            /\ messages' = messages
            /\ error' = error
            /\ authLoading' = authLoading]_vars

\* A sign-out attempt has failed: the error is shown, authLoading is false,
\* and the user is still signed in with the session selected, hydrated and
\* pointed to.
C19_Witness ==
    /\ authError = "signout"
    /\ ~authLoading
    /\ authCalls = {}
    /\ authUser # NoUser
    /\ session = authUser
    /\ chatSession # NoSession
    /\ localPtr = chatSession
    /\ messages # << >>

\* C20: when fetchMessages resolves, the view becomes the history the backend
\* holds for the session the run selected, whatever the view showed before:
\* as many entries, in the same order, each with the same content, a user
\* turn shown with type user and an assistant turn with type ai.
C20_HydrationReplacesView ==
    [][\A r \in RunIds :
         FetchOkStep(r) =>
           LET hist == store[runs[r].active] IN
             /\ Len(messages') = Len(hist)
             /\ \A i \in 1..Len(hist) :
                  /\ messages'[i].content = hist[i].content
                  /\ hist[i].role = "user" => messages'[i].type = "user"
                  /\ hist[i].role = "assistant" => messages'[i].type = "ai"]_vars

\* A second run has hydrated a session whose history has a user turn and an
\* assistant turn: the view holds these two entries, once.
C20_Witness ==
    /\ nRuns >= 2
    /\ \A r \in 1..2 : runs[r].pc = "done"
    /\ chatSession # NoSession
    /\ Len(store[chatSession]) = 2
    /\ Len(messages) = 2
    /\ messages[1].type = "user"
    /\ messages[2].type = "ai"
    /\ messages[2].content = store[chatSession][2].content

\* What can be in the text input, whitespace included.
TypedTexts == InputTexts \cup {" "}

\* One user, or a principal without an email, at the chat form: every way
\* handleSubmit can be entered, with the auth events and the runs.
NextSubmit ==
    \/ LoadSessionOk
    \/ SignedIn("u1")
    \/ SignedInNoEmail
    \/ SignedOut
    \/ \E r \in RunIds : RegisterOk(r)
    \/ \E r \in RunIds : RegisterFail(r)
    \/ \E r \in RunIds : ListOk(r)
    \/ \E r \in RunIds : ListFail(r)
    \/ \E r \in RunIds : CreateOk(r)
    \/ \E r \in RunIds : CreateFail(r)
    \/ \E r \in RunIds : FetchOk(r)
    \/ \E r \in RunIds : FetchFail(r)
    \/ \E t \in TypedTexts : TypeInput(t)
    \/ SubmitBlank
    \/ SubmitNoPrincipal
    \/ SubmitRejected
    \/ SubmitAccepted
    \/ \E s \in SubIds : StoreUserOk(s)
    \/ \E s \in SubIds : StoreUserFail(s)
    \/ \E s \in SubIds : SendOk(s, "a")
    \/ \E s \in SubIds : SendFail(s)
    \/ \E s \in SubIds : StoreAiOk(s)
    \/ \E s \in SubIds : StoreAiFail(s)

SpecSubmit == InitChat /\ [][NextSubmit]_vars

\* The errors handleSubmit sets when it rejects.
RejectionErrors == {"nosignin", "nosession"}

\* C21: a rejected submit has no effect beyond its error.  While the input is
\* blank no submit starts and no rejection error is set.  A step that sets a rejection error starts no submit, leaves the
\* backend, the view, the input and loading as they are, and is taken only
\* with no email in the session or with no chat session selected; a submit
\* starts only with non-blank input, an email and a selected chat session.
C21_RejectedSubmitHasNoEffect ==
    [][/\ Blank(input) =>
            /\ nSubs' = nSubs
            /\ error' # error => error' \notin RejectionErrors
       /\ (error' # error /\ error' \in RejectionErrors) =>
            /\ error' = IF HasEmail(session) THEN "nosession" ELSE "nosignin"
            /\ ~HasEmail(session) \/ chatSession = NoSession
            /\ subs' = subs
            /\ nSubs' = nSubs
            /\ store' = store
            /\ messages' = messages
            /\ input' = input
            /\ loading' = loading
       /\ \A s \in SubIds :
            SubmitStep(s) =>
              /\ ~Blank(input)
              /\ HasEmail(session)
              /\ chatSession # NoSession]_vars

\* handleSubmit has rejected a principal without an email: the error is
\* shown, the text is still in the input, and nothing was sent or appended.
C21_Witness ==
    /\ error = "nosignin"
    /\ session = NoEmail
    /\ input = "q"
    /\ ~loading
    /\ nSubs = 0
    /\ messages = << >>

\* Run r is the latest run, it belongs to the principal of the page, the run
\* before it has completed successfully, no other run is in flight, and the
\* page still holds what a completed run leaves: a selected session of that
\* principal with the pointer at it.
RunsAfterCompleted(r) ==
    /\ r >= 2
    /\ r = nRuns
    /\ runs[r - 1].pc = "done"
    /\ runs[r - 1].user = runs[r].user
    /\ \A q \in RunIds : q # r => runs[q].pc \notin InFlight
    /\ session = runs[r].user
    /\ chatSession # NoSession
    /\ chatSession \in Owned(runs[r].user)
    /\ localPtr = chatSession

\* C22: reconciliation is idempotent when run in sequence.  The first run of
\* the page, completing successfully for the principal of the page, leaves a
\* selected session of that principal with the pointer at it; a later run
\* for the same principal that finds the page as a completed run left it
\* selects the same session, goes on to hydrate it without creating one, and
\* leaves the selection, the pointer and the session lists as they were, up
\* to and including its completion.
C22_SequentialRunsIdempotent ==
    [][/\ (nRuns = 1 /\ session = runs[1].user /\ CompletesStep(1)
              /\ runs'[1].pc = "done") =>
            /\ chatSession' # NoSession
            /\ chatSession' \in Owned(session)'
            /\ localPtr' = chatSession'
       /\ (nRuns = 1 /\ session = runs[1].user /\ runs[1].pc = "create") =>
            runs'[1].pc \in {"create", "done", "failed"}
       /\ \A r \in RunIds :
            RunsAfterCompleted(r) =>
              /\ runs[r].pc = "list" =>
                    runs'[r].pc \in {"list", "fetch", "failed"}
              /\ ListOkStep(r) => runs'[r].active = chatSession
              /\ (\/ ListOkStep(r)
                  \/ /\ runs[r].pc = "fetch"
                     /\ runs[r].active = chatSession
                     /\ runs'[r].pc \in {"done", "warned"}) =>
                    /\ chatSession' = chatSession
                    /\ localPtr' = localPtr
                    /\ sessions' = sessions]_vars

\* Two runs for the same user have completed one after the other from an
\* empty session list: the one session the first run created is selected
\* and pointed to, and it is the only one the user has.
C22_Witness ==
    /\ nRuns = 2
    /\ runs[1].pc = "done"
    /\ runs[2].pc = "done"
    /\ runs[1].user = runs[2].user
    /\ session = runs[2].user
    /\ chatSession >= FirstNewSid
    /\ localPtr = chatSession
    /\ Owned(session) = {chatSession}

\* Every network call of a run eventually settles, by success or failure.
RunCallsSettle ==
    \A r \in RunIds :
      /\ WF_vars(RegisterOk(r) \/ RegisterFail(r))
      /\ WF_vars(ListOk(r) \/ ListFail(r))
      /\ WF_vars(CreateOk(r) \/ CreateFail(r))
      /\ WF_vars(FetchOk(r) \/ FetchFail(r))

SpecReconcileLive == SpecReconcile /\ RunCallsSettle

\* The step in which run r returns.
RunEndsStep(r) == runs[r].pc \in InFlight /\ runs'[r].pc \notin InFlight

\* C23: every run ends the initializing state.  The step in which a run
\* returns, with a selected session, a hydration failure or an
\* initialization failure, leaves initLoading false, and so does the effect
\* that finds the principal gone; with no call of a run outstanding
\* initLoading is false; and when every call eventually settles, a view that
\* is initializing eventually is not.
C23_InitializingTerminates ==
    /\ []((\A r \in RunIds : runs[r].pc \notin InFlight) => ~initLoading)
    /\ [][/\ \A r \in RunIds :
              /\ RunEndsStep(r) => ~initLoading'
              /\ RunEndsStep(r) => runs'[r].pc \in Finished
         /\ (session # NoUser /\ session' = NoUser) => ~initLoading']_vars
    /\ (initLoading ~> ~initLoading)

\* One run has ended with an initialization failure and a later one with a
\* hydration failure: the view is not initializing.
C23_Witness ==
    /\ nRuns = 2
    /\ runs[1].pc = "failed"
    /\ runs[2].pc = "warned"
    /\ session # NoUser
    /\ ~initLoading
====
